---- MODULE Spec2Model ----
(***************************************************************************)
(* PokemonVLMBot (src/pokemonVLMbot.py): the decision-and-state loop.      *)
(*                                                                         *)
(* Python strings are sequences of one-character strings, so that find,    *)
(* rfind, slicing, lower() and the substring test `in` are computed on     *)
(* characters.  A JSON value is a tagged record (V_Str, V_Int, ...); a     *)
(* Python dict is a function from its keys to its values.                  *)
(*                                                                         *)
(* The specifications share the variables:                                 *)
(*   SpecParse    _parse_gemini_response applied to bounded raw texts;     *)
(*   SpecUpdate   update_game_state called repeatedly from a fresh state;  *)
(*   SpecSend     send_input applied to bounded action strings;            *)
(*   SpecPersist  save_game_state, then a new process and its              *)
(*                load_game_state, over bounded states and snapshot files; *)
(*   Spec         main(): load, run_game_loop, save (FairSpec adds         *)
(*                weak fairness of the program's steps).                   *)
(***************************************************************************)
EXTENDS Integers, Sequences, FiniteSets, TLC

VARIABLES
  pc,            \* control point of the specification that is running
  text,          \* SpecParse: the raw response text handed to the parser
  parsed,        \* SpecParse: the dict _parse_gemini_response returned
  game_state,    \* self.game_state
  prev,          \* game_state before the latest update_game_state call
  arg,           \* the analysis dict of the latest update_game_state call
  raised,        \* whether the latest update_game_state call raised
  appended,      \* every entry appended to reasoning_history so far, in order
  script,        \* the reasoner's replies (Spec) / the decisions (SpecUpdate), cyclic
  calls,         \* number of reasoner calls (Spec) / update calls (SpecUpdate) so far
  now,           \* logical clock behind datetime.now()
  i,             \* run_game_loop: number of iterations started
  analysis,      \* run_game_loop: the analysis dict of the current iteration
  iterSent,      \* keyevent commands issued in the current iteration, in order
  iter,          \* what has happened in the current iteration (see NewIter)
  run,           \* the run of equal decided actions over the updating iterations
  interrupted,   \* a KeyboardInterrupt has been delivered
  loaded,        \* load_game_state replaced the default game_state
  file,          \* content of game_state.json
  saves          \* number of completed save_game_state calls

parseVars  == <<text, parsed>>
stateVars  == <<game_state, prev, arg, raised, appended, now>>
scriptVars == <<script, calls>>
loopVars   == <<i, analysis, iterSent, iter, run, interrupted, loaded, file, saves>>
vars == <<pc, parseVars, stateVars, scriptVars, loopVars>>

(***************************************************************************)
(* String literals of the source.                                          *)
(***************************************************************************)
\* action
k_action == <<"a", "c", "t", "i", "o", "n">>
\* reasoning
k_reasoning == <<"r", "e", "a", "s", "o", "n", "i", "n", "g">>
\* scene_description
k_scene_description == <<"s", "c", "e", "n", "e", "_", "d", "e", "s", "c", "r", "i", "p", "t", "i", "o", "n">>
\* current_location
k_current_location == <<"c", "u", "r", "r", "e", "n", "t", "_", "l", "o", "c", "a", "t", "i", "o", "n">>
\* panic_level
k_panic_level == <<"p", "a", "n", "i", "c", "_", "l", "e", "v", "e", "l">>
\* confidence
k_confidence == <<"c", "o", "n", "f", "i", "d", "e", "n", "c", "e">>
\* error
k_error == <<"e", "r", "r", "o", "r">>
\* wait
s_wait == <<"w", "a", "i", "t">>
\* Unknown
s_Unknown == <<"U", "n", "k", "n", "o", "w", "n">>
\* Not provided
s_NotProvided == <<"N", "o", "t", " ", "p", "r", "o", "v", "i", "d", "e", "d">>
\* Analysis failed
s_AnalysisFailed == <<"A", "n", "a", "l", "y", "s", "i", "s", " ", "f", "a", "i", "l", "e", "d">>
\* Unable to determine action
s_UnableToDetermine == <<"U", "n", "a", "b", "l", "e", " ", "t", "o", " ", "d", "e", "t", "e", "r", "m", "i", "n", "e", " ", "a", "c", "t", "i", "o", "n">>
\* Parsing failed, used fallback.
s_ParsingFailed == <<"P", "a", "r", "s", "i", "n", "g", " ", "f", "a", "i", "l", "e", "d", ",", " ", "u", "s", "e", "d", " ", "f", "a", "l", "l", "b", "a", "c", "k", ".">>
\* the JSON literals json.loads accepts
s_null == <<"n", "u", "l", "l">>
s_true == <<"t", "r", "u", "e">>
s_false == <<"f", "a", "l", "s", "e">>
s_NaN == <<"N", "a", "N">>
s_Infinity == <<"I", "n", "f", "i", "n", "i", "t", "y">>

(***************************************************************************)
(* JSON / Python values.                                                   *)
(***************************************************************************)
V_Str(s)  == [t |-> "str",  s |-> s,    n |-> 0]
V_Int(k)  == [t |-> "int",  s |-> <<>>, n |-> k]
V_Bool(b) == [t |-> "bool", s |-> <<>>, n |-> IF b THEN 1 ELSE 0]
V_Null    == [t |-> "null", s |-> <<>>, n |-> 0]     \* None
V_NaN     == [t |-> "nan",  s |-> <<>>, n |-> 0]     \* float('nan')
V_Inf     == [t |-> "inf",  s |-> <<>>, n |-> 0]     \* float('inf')
V_Obj(d)  == [t |-> "obj",  s |-> <<>>, n |-> 0, d |-> d]
V_List(l) == [t |-> "list", s |-> <<>>, n |-> 0, d |-> l]

EmptyDict == [k \in {} |-> V_Null]
\* d[k] = v
Put(d, k, v) == [x \in (DOMAIN d) \cup {k} |-> IF x = k THEN v ELSE d[x]]
\* d.get(k, dflt)
Get(d, k, dflt) == IF k \in DOMAIN d THEN d[k] ELSE dflt
\* d.setdefault(k, dflt)
SetDefault(d, k, dflt) == IF k \in DOMAIN d THEN d ELSE Put(d, k, dflt)

(***************************************************************************)
(* self.button_mappings, in insertion order (the order a dict iterates).   *)
(***************************************************************************)
button_mappings ==
  << [key |-> <<"a">>, keycode |-> "KEYCODE_BUTTON_A"],
     [key |-> <<"b">>, keycode |-> "KEYCODE_BUTTON_B"],
     [key |-> <<"s", "t", "a", "r", "t">>, keycode |-> "KEYCODE_BUTTON_START"],
     [key |-> <<"s", "e", "l", "e", "c", "t">>, keycode |-> "KEYCODE_BUTTON_SELECT"],
     [key |-> <<"u", "p">>, keycode |-> "KEYCODE_DPAD_UP"],
     [key |-> <<"d", "o", "w", "n">>, keycode |-> "KEYCODE_DPAD_DOWN"],
     [key |-> <<"l", "e", "f", "t">>, keycode |-> "KEYCODE_DPAD_LEFT"],
     [key |-> <<"r", "i", "g", "h", "t">>, keycode |-> "KEYCODE_DPAD_RIGHT"],
     [key |-> <<"l">>, keycode |-> "KEYCODE_BUTTON_L1"],
     [key |-> <<"r">>, keycode |-> "KEYCODE_BUTTON_R1"],
     [key |-> <<"m", "o", "v", "e", "_", "u", "p">>, keycode |-> "KEYCODE_DPAD_UP"],
     [key |-> <<"m", "o", "v", "e", "_", "d", "o", "w", "n">>, keycode |-> "KEYCODE_DPAD_DOWN"],
     [key |-> <<"m", "o", "v", "e", "_", "l", "e", "f", "t">>, keycode |-> "KEYCODE_DPAD_LEFT"],
     [key |-> <<"m", "o", "v", "e", "_", "r", "i", "g", "h", "t">>, keycode |-> "KEYCODE_DPAD_RIGHT"],
     [key |-> <<"g", "o", "_", "u", "p">>, keycode |-> "KEYCODE_DPAD_UP"],
     [key |-> <<"g", "o", "_", "d", "o", "w", "n">>, keycode |-> "KEYCODE_DPAD_DOWN"],
     [key |-> <<"g", "o", "_", "l", "e", "f", "t">>, keycode |-> "KEYCODE_DPAD_LEFT"],
     [key |-> <<"g", "o", "_", "r", "i", "g", "h", "t">>, keycode |-> "KEYCODE_DPAD_RIGHT"],
     [key |-> <<"p", "r", "e", "s", "s", "_", "a">>, keycode |-> "KEYCODE_BUTTON_A"],
     [key |-> <<"p", "r", "e", "s", "s", "_", "b">>, keycode |-> "KEYCODE_BUTTON_B"],
     [key |-> <<"p", "r", "e", "s", "s", "_", "s", "t", "a", "r", "t">>, keycode |-> "KEYCODE_BUTTON_START"],
     [key |-> <<"p", "r", "e", "s", "s", "_", "s", "e", "l", "e", "c", "t">>, keycode |-> "KEYCODE_BUTTON_SELECT"] >>

(***************************************************************************)
(* Python string operations.                                               *)
(***************************************************************************)
UpperCase == <<"A","B","C","D","E","F","G","H","I","J","K","L","M",
               "N","O","P","Q","R","S","T","U","V","W","X","Y","Z">>
LowerCase == <<"a","b","c","d","e","f","g","h","i","j","k","l","m",
               "n","o","p","q","r","s","t","u","v","w","x","y","z">>
LowerChar(c) ==
  IF \E j \in 1..Len(UpperCase) : UpperCase[j] = c
  THEN LowerCase[CHOOSE j \in 1..Len(UpperCase) : UpperCase[j] = c]
  ELSE c
\* s.lower()
Lower(s) == [j \in 1..Len(s) |-> LowerChar(s[j])]
\* s.find(c): 0-based index of the first c, -1 when there is none
Find(s, c) ==
  IF \E j \in 1..Len(s) : s[j] = c
  THEN (CHOOSE j \in 1..Len(s) : s[j] = c /\ \A m \in 1..(j-1) : s[m] # c) - 1
  ELSE -1
\* s.rfind(c): 0-based index of the last c, -1 when there is none
RFind(s, c) ==
  IF \E j \in 1..Len(s) : s[j] = c
  THEN (CHOOSE j \in 1..Len(s) : s[j] = c /\ \A m \in (j+1)..Len(s) : s[m] # c) - 1
  ELSE -1
\* s[start:end] for 0 <= start and 0 <= end <= len(s)
Slice(s, start, end) == SubSeq(s, start + 1, end)
\* sub in s
Contains(s, sub) ==
  \E j \in 0..(Len(s) - Len(sub)) : SubSeq(s, j + 1, j + Len(sub)) = sub
(***************************************************************************)
(* json.loads, on the texts the model forms: objects whose keys are        *)
(* strings, arrays, strings (a backslash escapes a quote, a backslash, a   *)
(* slash or one of n, r, t), unsigned integers and the literals null,      *)
(* true, false, NaN, Infinity, with blanks and line ends between tokens.   *)
(* Anything else over these texts is a JSONDecodeError (ok = FALSE).       *)
(***************************************************************************)
Digits == <<"0", "1", "2", "3", "4", "5", "6", "7", "8", "9">>
IsDigit(c) == \E j \in 1..Len(Digits) : Digits[j] = c
DigitVal(c) == (CHOOSE j \in 1..Len(Digits) : Digits[j] = c) - 1
At(s, p) == IF p >= 1 /\ p <= Len(s) THEN s[p] ELSE ""
HasPrefix(s, p, lit) ==
  p + Len(lit) - 1 <= Len(s) /\ SubSeq(s, p, p + Len(lit) - 1) = lit
JsonFail == [ok |-> FALSE, pos |-> 0, val |-> V_Null]
JsonOk(p, v) == [ok |-> TRUE, pos |-> p, val |-> v]

RECURSIVE SkipWs(_, _)
SkipWs(s, p) == IF At(s, p) \in {" ", "\n", "\r", "\t"} THEN SkipWs(s, p + 1) ELSE p

\* the character an escape \c stands for; "" when the model has no such escape
Unescape(c) ==
  IF c \in {"\"", "\\", "/"} THEN c
  ELSE IF c = "n" THEN "\n"
  ELSE IF c = "r" THEN "\r"
  ELSE IF c = "t" THEN "\t"
  ELSE ""

\* the string whose content starts at p, acc being what has been read of it:
\* it ends at the first quote that no backslash escapes; a control character
\* or the end of the text inside it is an error
RECURSIVE JsonStringFrom(_, _, _)
JsonStringFrom(s, p, acc) ==
  IF p > Len(s) \/ s[p] \in {"\n", "\r", "\t"} THEN JsonFail
  ELSE IF s[p] = "\"" THEN JsonOk(p + 1, V_Str(acc))
  ELSE IF s[p] = "\\"
       THEN IF Unescape(At(s, p + 1)) = "" THEN JsonFail
            ELSE JsonStringFrom(s, p + 2, Append(acc, Unescape(At(s, p + 1))))
  ELSE JsonStringFrom(s, p + 1, Append(acc, s[p]))

\* first position after the run of digits that starts at p
RECURSIVE DigitsEnd(_, _)
DigitsEnd(s, p) == IF IsDigit(At(s, p)) THEN DigitsEnd(s, p + 1) ELSE p

RECURSIVE DigitsVal(_)
DigitsVal(ds) ==
  IF ds = <<>> THEN 0
  ELSE 10 * DigitsVal(SubSeq(ds, 1, Len(ds) - 1)) + DigitVal(ds[Len(ds)])

\* "0" or a run of digits that does not start with 0
JsonNumber(s, p) ==
  LET e == IF s[p] = "0" THEN p + 1 ELSE DigitsEnd(s, p)
  IN  JsonOk(e, V_Int(DigitsVal(SubSeq(s, p, e - 1))))

JsonString(s, p) == JsonStringFrom(s, p + 1, <<>>)

RECURSIVE JsonValue(_, _), JsonMembers(_, _, _), JsonElements(_, _, _)
JsonObject(s, p) ==
  LET p1 == SkipWs(s, p + 1)
  IN  IF At(s, p1) = "}" THEN JsonOk(p1 + 1, V_Obj(EmptyDict))
      ELSE JsonMembers(s, p1, EmptyDict)

JsonMembers(s, p, d) ==
  IF At(s, p) # "\"" THEN JsonFail
  ELSE LET k == JsonString(s, p)
       IN  IF ~k.ok THEN JsonFail
           ELSE LET p2 == SkipWs(s, k.pos)
                IN  IF At(s, p2) # ":" THEN JsonFail
                    ELSE LET v == JsonValue(s, SkipWs(s, p2 + 1))
                         IN  IF ~v.ok THEN JsonFail
                             ELSE LET p4 == SkipWs(s, v.pos)
                                      d2 == Put(d, k.val.s, v.val)
                                  IN  IF At(s, p4) = "," 
                                      THEN JsonMembers(s, SkipWs(s, p4 + 1), d2)
                                      ELSE IF At(s, p4) = "}"
                                      THEN JsonOk(p4 + 1, V_Obj(d2))
                                      ELSE JsonFail

JsonArray(s, p) ==
  LET p1 == SkipWs(s, p + 1)
  IN  IF At(s, p1) = "]" THEN JsonOk(p1 + 1, V_List(<<>>))
      ELSE JsonElements(s, p1, <<>>)

JsonElements(s, p, l) ==
  LET v == JsonValue(s, p)
  IN  IF ~v.ok THEN JsonFail
      ELSE LET p2 == SkipWs(s, v.pos)
           IN  IF At(s, p2) = ","
               THEN JsonElements(s, SkipWs(s, p2 + 1), Append(l, v.val))
               ELSE IF At(s, p2) = "]"
               THEN JsonOk(p2 + 1, V_List(Append(l, v.val)))
               ELSE JsonFail

JsonValue(s, p) ==
  IF At(s, p) = "\"" THEN JsonString(s, p)
  ELSE IF At(s, p) = "{" THEN JsonObject(s, p)
  ELSE IF At(s, p) = "[" THEN JsonArray(s, p)
  ELSE IF IsDigit(At(s, p)) THEN JsonNumber(s, p)
  ELSE IF HasPrefix(s, p, s_null) THEN JsonOk(p + Len(s_null), V_Null)
  ELSE IF HasPrefix(s, p, s_true) THEN JsonOk(p + Len(s_true), V_Bool(TRUE))
  ELSE IF HasPrefix(s, p, s_false) THEN JsonOk(p + Len(s_false), V_Bool(FALSE))
  ELSE IF HasPrefix(s, p, s_NaN) THEN JsonOk(p + Len(s_NaN), V_NaN)
  ELSE IF HasPrefix(s, p, s_Infinity) THEN JsonOk(p + Len(s_Infinity), V_Inf)
  ELSE JsonFail

\* json.loads(s): ok = FALSE stands for JSONDecodeError
JsonLoads(s) ==
  LET r == JsonValue(s, SkipWs(s, 1))
  IN  IF r.ok /\ SkipWs(s, r.pos) = Len(s) + 1 THEN r ELSE JsonFail

(***************************************************************************)
(* PokemonVLMBot.fallback_parse                                           *)
(***************************************************************************)
\* (mutant) the scan keeps the last matching key instead of the first
LastKeyIn(low) ==
  IF \E j \in 1..Len(button_mappings) : Contains(low, button_mappings[j].key)
  THEN CHOOSE j \in 1..Len(button_mappings) :
         /\ Contains(low, button_mappings[j].key)
         /\ \A m \in (j + 1)..Len(button_mappings) : ~Contains(low, button_mappings[m].key)
  ELSE 0

\* index of the first button_mappings key that occurs in text.lower(); 0 if none
FirstKeyIn(low) ==
  IF \E j \in 1..Len(button_mappings) : Contains(low, button_mappings[j].key)
  THEN CHOOSE j \in 1..Len(button_mappings) :
         /\ Contains(low, button_mappings[j].key)
         /\ \A m \in 1..(j - 1) : ~Contains(low, button_mappings[m].key)
  ELSE 0

FallbackConfidence == 3
NoActionConfidence == 1

fallback_parse(txt) ==
  LET j == FirstKeyIn(Lower(txt))
  IN  IF j # 0
      THEN (k_action :> V_Str(button_mappings[j].key))
           @@ (k_reasoning :> V_Str(txt))
           @@ (k_scene_description :> V_Str(s_ParsingFailed))
           @@ (k_confidence :> V_Int(FallbackConfidence))
      ELSE (k_action :> V_Str(s_wait))
           @@ (k_reasoning :> V_Str(s_UnableToDetermine))
           @@ (k_scene_description :> V_Str(txt))
           @@ (k_confidence :> V_Int(NoActionConfidence))

(***************************************************************************)
(* PokemonVLMBot.parse_gemini_response                                    *)
(***************************************************************************)
\* (mutant) a decode failure falls back on the enclosed substring, not the full text
parse_fallback_on_slice(response_text) ==
  LET start == Find(response_text, "{")
      end   == RFind(response_text, "}") + 1
  IN  IF start # -1 /\ end # -1
      THEN LET r == JsonLoads(Slice(response_text, start, end))
           IN  IF r.ok
               THEN SetDefault(SetDefault(SetDefault(r.val.d,
                      k_action, V_Str(s_NotProvided)),
                      k_reasoning, V_Str(s_NotProvided)),
                      k_scene_description, V_Str(s_NotProvided))
               ELSE fallback_parse(Slice(response_text, start, end))
      ELSE fallback_parse(response_text)

parse_gemini_response(response_text) ==
  LET start == Find(response_text, "{")
      end   == RFind(response_text, "}") + 1
  IN  IF start # -1 /\ end # -1
      THEN LET r == JsonLoads(Slice(response_text, start, end))
           IN  IF r.ok
               THEN SetDefault(SetDefault(SetDefault(r.val.d,
                      k_action, V_Str(s_NotProvided)),
                      k_reasoning, V_Str(s_NotProvided)),
                      k_scene_description, V_Str(s_NotProvided))
               ELSE fallback_parse(response_text)
      ELSE fallback_parse(response_text)

(***************************************************************************)
(* int(x) as update_game_state uses it: err is "" when int() returns,      *)
(* else the exception it raises.  A str converts when it is a run of       *)
(* decimal digits (the strings of the model carry no sign, blank or        *)
(* underscore).                                                            *)
(***************************************************************************)
AllDigits(s) == s # <<>> /\ \A j \in 1..Len(s) : IsDigit(s[j])
PyInt(v) ==
  IF v.t \in {"int", "bool"} THEN [err |-> "", n |-> v.n]
  ELSE IF v.t = "str"
       THEN IF AllDigits(v.s) THEN [err |-> "", n |-> DigitsVal(v.s)]
            ELSE [err |-> "ValueError", n |-> 0]
  ELSE IF v.t = "nan" THEN [err |-> "ValueError", n |-> 0]
  ELSE IF v.t = "inf" THEN [err |-> "OverflowError", n |-> 0]
  ELSE [err |-> "TypeError", n |-> 0]

\* a == b on the values above (a float NaN differs from itself)
PyEq(a, b) == a = b /\ a.t # "nan"

(***************************************************************************)
(* PokemonVLMBot.__init__: the default game_state.                         *)
(***************************************************************************)
DefaultGameState ==
  [ current_location  |-> V_Str(<<>>),
    party_pokemon     |-> <<>>,
    inventory         |-> <<>>,
    objectives        |-> <<>>,
    panic_mode        |-> FALSE,
    stuck_counter     |-> 0,
    last_action       |-> V_Str(<<>>),
    reasoning_history |-> <<>> ]

(***************************************************************************)
(* PokemonVLMBot.update_game_state(analysis), with ts the reading of the   *)
(* clock.  The result is the game_state the call leaves and whether the    *)
(* call raised (OverflowError is not among the exceptions line 183         *)
(* catches, and the two assignments before it have been made by then; a    *)
(* game_state loaded from a snapshot that lacks a key raises KeyError      *)
(* where the key is read).                                                 *)
(***************************************************************************)
PanicThreshold == 7
CalmThreshold == 3
HistoryCap == 50

\* gs[k] = v on a dict, which makes the key when gs has none
SetKey(gs, k, v) ==
  IF k \in DOMAIN gs THEN [gs EXCEPT ![k] = v]
  ELSE [x \in (DOMAIN gs) \cup {k} |-> IF x = k THEN v ELSE gs[x]]

\* lines 178-179
SetLocationAndAction(gs, an) ==
  SetKey(SetKey(gs, "current_location", Get(an, k_current_location, V_Str(s_Unknown))),
         "last_action", Get(an, k_action, V_Str(s_wait)))

\* lines 181-184
PanicLevel(an) ==
  LET c == PyInt(Get(an, k_panic_level, V_Int(0)))
  IN  IF c.err \in {"ValueError", "TypeError"} THEN [err |-> "", n |-> 0] ELSE c

\* (mutant) line 186 assigns only when the level is high: 4..6 keeps the old flag
SetPanicModeHysteresis(gs, panic_level) ==
  IF panic_level >= PanicThreshold THEN [gs EXCEPT !.panic_mode = TRUE]
  ELSE IF panic_level <= CalmThreshold THEN [gs EXCEPT !.panic_mode = FALSE]
  ELSE gs

\* lines 186-190
SetPanicMode(gs, panic_level) ==
  LET g1 == SetKey(gs, "panic_mode", panic_level >= PanicThreshold)
  IN  IF panic_level >= PanicThreshold THEN g1
      ELSE IF panic_level <= CalmThreshold THEN SetKey(g1, "panic_mode", FALSE)
      ELSE g1

\* line 192: gs.last_action has been overwritten by line 179 already
SameAction(gs, an) == PyEq(Get(an, k_action, V_Null), gs.last_action)

\* lines 192-195
SetStuckCounter(gs, an) ==
  IF SameAction(gs, an)
  THEN [gs EXCEPT !.stuck_counter = @ + 1]
  ELSE SetKey(gs, "stuck_counter", 0)

\* lines 197-202
HistoryEntry(an, ts) ==
  [ timestamp  |-> ts,
    reasoning  |-> Get(an, k_reasoning, V_Str(<<>>)),
    action     |-> Get(an, k_action, V_Str(s_wait)),
    confidence |-> Get(an, k_confidence, V_Int(0)) ]

\* seq[-n:]
LastN(seq, n) == IF Len(seq) <= n THEN seq ELSE SubSeq(seq, Len(seq) - n + 1, Len(seq))

\* (mutant) the cap keeps the first HistoryCap entries instead of the last
AppendHistoryKeepOldest(gs, an, ts) ==
  LET h == Append(gs.reasoning_history, HistoryEntry(an, ts))
  IN  [gs EXCEPT !.reasoning_history =
         IF Len(h) > HistoryCap THEN SubSeq(h, 1, HistoryCap) ELSE h]

\* lines 197-205
AppendHistory(gs, an, ts) ==
  LET h == Append(gs.reasoning_history, HistoryEntry(an, ts))
  IN  [gs EXCEPT !.reasoning_history =
         IF Len(h) > HistoryCap THEN LastN(h, HistoryCap) ELSE h]

\* a game_state that load_game_state read from a snapshot may be no dict
\* (any JSON value loads) or a dict without some of the keys
IsDict(gs) == "t" \notin DOMAIN gs

update_game_state(gs, an, ts) ==
  IF ~IsDict(gs) THEN [raised |-> TRUE, gs |-> gs]          \* TypeError, line 178
  ELSE
  LET g1 == SetLocationAndAction(gs, an)
      pl == PanicLevel(an)
  IN  IF pl.err # ""
      THEN [raised |-> TRUE, gs |-> g1]                     \* OverflowError, line 182
      ELSE LET g2 == SetPanicMode(g1, pl.n)
           IN  IF SameAction(g2, an) /\ "stuck_counter" \notin DOMAIN g2
               THEN [raised |-> TRUE, gs |-> g2]            \* KeyError, line 193
               ELSE IF "reasoning_history" \notin DOMAIN g2
               THEN [raised |-> TRUE, gs |-> SetStuckCounter(g2, an)]  \* KeyError, line 197
               ELSE [raised |-> FALSE,
                     gs |-> AppendHistory(SetStuckCounter(g2, an), an, ts)]

(***************************************************************************)
(* json.dump(self.game_state, f, indent=2) and json.load(f): the text of   *)
(* the snapshot file and the value read back from it.                      *)
(***************************************************************************)
\* timestamp
k_timestamp == <<"t", "i", "m", "e", "s", "t", "a", "m", "p">>
\* the keys of game_state, in the order __init__ inserts them
GameStateKeys ==
  << [name |-> "current_location",  key |-> k_current_location],
     [name |-> "party_pokemon",     key |-> <<"p", "a", "r", "t", "y", "_", "p", "o", "k", "e", "m", "o", "n">>],
     [name |-> "inventory",         key |-> <<"i", "n", "v", "e", "n", "t", "o", "r", "y">>],
     [name |-> "objectives",        key |-> <<"o", "b", "j", "e", "c", "t", "i", "v", "e", "s">>],
     [name |-> "panic_mode",        key |-> <<"p", "a", "n", "i", "c", "_", "m", "o", "d", "e">>],
     [name |-> "stuck_counter",     key |-> <<"s", "t", "u", "c", "k", "_", "c", "o", "u", "n", "t", "e", "r">>],
     [name |-> "last_action",       key |-> <<"l", "a", "s", "t", "_", "a", "c", "t", "i", "o", "n">>],
     [name |-> "reasoning_history", key |-> <<"r", "e", "a", "s", "o", "n", "i", "n", "g", "_", "h", "i", "s", "t", "o", "r", "y">>] >>
KeyOf(name) ==
  GameStateKeys[CHOOSE j \in 1..Len(GameStateKeys) : GameStateKeys[j].name = name].key
NameOf(key) ==
  GameStateKeys[CHOOSE j \in 1..Len(GameStateKeys) : GameStateKeys[j].key = key].name

\* str(n) for n >= 0
RECURSIVE IntText(_)
IntText(n) ==
  IF n < 10 THEN <<Digits[n + 1]>>
  ELSE Append(IntText(n \div 10), Digits[(n % 10) + 1])

\* a history entry as the dict update_game_state appends; the text of
\* datetime.now().isoformat() stands as the digits of the clock reading
EntryValue(e) ==
  V_Obj((k_timestamp :> V_Str(IntText(e.timestamp)))
        @@ (k_reasoning :> e.reasoning)
        @@ (k_action :> e.action)
        @@ (k_confidence :> e.confidence))

\* game_state as a value of the kinds json handles
FieldValue(name, x) ==
  IF name \in {"current_location", "last_action"} THEN x
  ELSE IF name = "panic_mode" THEN V_Bool(x)
  ELSE IF name = "stuck_counter" THEN V_Int(x)
  ELSE IF name = "reasoning_history"
       THEN V_List([j \in 1..Len(x) |-> EntryValue(x[j])])
  ELSE V_List(x)
GameStateValue(gs) ==
  IF ~IsDict(gs) THEN gs
  ELSE V_Obj([k \in {KeyOf(name) : name \in DOMAIN gs} |->
                FieldValue(NameOf(k), gs[NameOf(k)])])

\* json's string escapes (ensure_ascii leaves the model's characters alone)
EscapeChar(c) ==
  IF c = "\"" THEN <<"\\", "\"">>
  ELSE IF c = "\\" THEN <<"\\", "\\">>
  ELSE IF c = "\n" THEN <<"\\", "n">>
  ELSE IF c = "\r" THEN <<"\\", "r">>
  ELSE IF c = "\t" THEN <<"\\", "t">>
  ELSE <<c>>
RECURSIVE Escape(_)
Escape(s) == IF s = <<>> THEN <<>> ELSE EscapeChar(Head(s)) \o Escape(Tail(s))
\* (mutant) a string is written between quotes as it is
QuotedUnescaped(s) == <<"\"">> \o s \o <<"\"">>
Quoted(s) == <<"\"">> \o Escape(s) \o <<"\"">>

IndentWidth == 2
\* the line break and indentation json.dump writes before an item
NewLine(level) == <<"\n">> \o [j \in 1..(IndentWidth * level) |-> " "]

\* json.dumps(v, indent=2) at nesting depth level.  The members of a dict
\* are written one after the other; the model's dicts keep no insertion
\* order, so the order is a fixed one, which json.load does not observe.
RECURSIVE JsonDumps(_, _), DumpMembers(_, _, _), DumpElements(_, _, _)
JsonDumps(v, level) ==
  IF v.t = "str" THEN Quoted(v.s)
  ELSE IF v.t = "int" THEN IntText(v.n)
  ELSE IF v.t = "bool" THEN (IF v.n = 1 THEN s_true ELSE s_false)
  ELSE IF v.t = "null" THEN s_null
  ELSE IF v.t = "nan" THEN s_NaN
  ELSE IF v.t = "inf" THEN s_Infinity
  ELSE IF v.t = "list"
       THEN IF v.d = <<>> THEN <<"[", "]">>
            ELSE <<"[">> \o DumpElements(v.d, 1, level + 1) \o NewLine(level) \o <<"]">>
  ELSE IF DOMAIN v.d = {} THEN <<"{", "}">>
       ELSE <<"{">> \o DumpMembers(v.d, DOMAIN v.d, level + 1) \o NewLine(level) \o <<"}">>
DumpElements(l, j, level) ==
  NewLine(level) \o JsonDumps(l[j], level)
  \o (IF j = Len(l) THEN <<>> ELSE <<",">> \o DumpElements(l, j + 1, level))
DumpMembers(d, keys, level) ==
  LET k == CHOOSE k \in keys : TRUE
  IN  NewLine(level) \o Quoted(k) \o <<":", " ">> \o JsonDumps(d[k], level)
      \o (IF keys = {k} THEN <<>> ELSE <<",">> \o DumpMembers(d, keys \ {k}, level))

\* the text save_game_state writes
json_dump(gs) == JsonDumps(GameStateValue(gs), 0)

\* the value json.load returns, as a game_state: a dict with keys of
\* game_state in the shapes __init__ gives them is the model's record,
\* any other value stays itself
IsEntry(v) ==
  /\ v.t = "obj"
  /\ DOMAIN v.d = {k_timestamp, k_reasoning, k_action, k_confidence}
  /\ v.d[k_timestamp].t = "str" /\ AllDigits(v.d[k_timestamp].s)
EntryOf(v) ==
  [ timestamp  |-> DigitsVal(v.d[k_timestamp].s),
    reasoning  |-> v.d[k_reasoning],
    action     |-> v.d[k_action],
    confidence |-> v.d[k_confidence] ]
IsField(name, v) ==
  IF name \in {"current_location", "last_action"} THEN TRUE
  ELSE IF name = "panic_mode" THEN v.t = "bool"
  ELSE IF name = "stuck_counter" THEN v.t = "int"
  ELSE IF name = "reasoning_history"
       THEN v.t = "list" /\ \A j \in 1..Len(v.d) : IsEntry(v.d[j])
  ELSE v = V_List(<<>>)
FieldOf(name, v) ==
  IF name \in {"current_location", "last_action"} THEN v
  ELSE IF name = "panic_mode" THEN v.n = 1
  ELSE IF name = "stuck_counter" THEN v.n
  ELSE IF name = "reasoning_history" THEN [j \in 1..Len(v.d) |-> EntryOf(v.d[j])]
  ELSE <<>>
GameStateOf(v) ==
  IF /\ v.t = "obj"
     /\ \A k \in DOMAIN v.d :
          /\ \E j \in 1..Len(GameStateKeys) : GameStateKeys[j].key = k
          /\ IsField(NameOf(k), v.d[k])
  THEN [name \in {NameOf(k) : k \in DOMAIN v.d} |-> FieldOf(name, v.d[KeyOf(name)])]
  ELSE v

(***************************************************************************)
(* game_state.json: absent, holding a text that something else left there, *)
(* or holding what save_game_state wrote for a game_state (the text is     *)
(* then json_dump of it).                                                  *)
(***************************************************************************)
NoFile == [kind |-> "missing", text |-> <<>>, state |-> <<>>]
TextFile(t) == [kind |-> "text", text |-> t, state |-> <<>>]
DumpFile(gs) == [kind |-> "dump", text |-> <<>>, state |-> gs]
\* lines 271-272: open(filename, 'r') and json.load(f); ok = FALSE when
\* either raises (FileNotFoundError, JSONDecodeError)
json_load(f) ==
  IF f.kind = "missing" THEN [ok |-> FALSE, gs |-> <<>>]
  ELSE LET r == JsonLoads(IF f.kind = "dump" THEN json_dump(f.state) ELSE f.text)
       IN  IF r.ok THEN [ok |-> TRUE, gs |-> GameStateOf(r.val)]
           ELSE [ok |-> FALSE, gs |-> <<>>]

(***************************************************************************)
(* Values the variables hold while their part of the program is not        *)
(* running.                                                                *)
(***************************************************************************)
NewIter(n, gs, c) ==
  [ index         |-> n,       \* number of the iteration, from 1
    start         |-> gs,      \* game_state when the iteration started
    calls0        |-> c,       \* reasoner calls made before the iteration
    captureFailed |-> FALSE,   \* take_screenshot returned None
    updated       |-> FALSE,   \* update_game_state returned
    postUpdate    |-> 0,       \* stuck_counter right after that update
    stuckFired    |-> FALSE,   \* handle_stuck_state took its branch
    errored       |-> FALSE ]  \* the iteration ended in `except Exception`
NoRun == [len |-> 0, action |-> V_Null]

ParseIdle == text = <<>> /\ parsed = EmptyDict
StateInit ==
  /\ game_state = DefaultGameState
  /\ prev = DefaultGameState
  /\ arg = EmptyDict
  /\ raised = FALSE
  /\ appended = <<>>
  /\ now = 0
LoopIdle ==
  /\ i = 0
  /\ analysis = EmptyDict
  /\ iterSent = <<>>
  /\ iter = NewIter(0, DefaultGameState, 0)
  /\ run = NoRun
  /\ interrupted = FALSE
  /\ loaded = FALSE
  /\ file = NoFile
  /\ saves = 0

(***************************************************************************)
(* SpecParse: _parse_gemini_response on every text of at most MaxTextLen   *)
(* characters over ParseAlphabet, and on the longer texts of LongTexts.    *)
(***************************************************************************)
MaxTextLen == 5
ParseAlphabet == {"{", "}", "L", "e", "f", "t", "a"}
ShortTexts == UNION {[1..n -> ParseAlphabet] : n \in 0..MaxTextLen}

\* {"action":"b","reasoning":"x"}
t_json_b == <<"{", "\"", "a", "c", "t", "i", "o", "n", "\"", ":", "\"", "b", "\"", ",", "\"", "r", "e", "a", "s", "o", "n", "i", "n", "g", "\"", ":", "\"", "x", "\"", "}">>
\* Go {"action": "up"} now
t_prose_json == <<"G", "o", " ", "{", "\"", "a", "c", "t", "i", "o", "n", "\"", ":", " ", "\"", "u", "p", "\"", "}", " ", "n", "o", "w">>
\* {"action":"up"
t_unclosed == <<"{", "\"", "a", "c", "t", "i", "o", "n", "\"", ":", "\"", "u", "p", "\"">>
\* } left {
t_reversed == <<"}", " ", "l", "e", "f", "t", " ", "{">>
\* {"action":"a",}
t_trailing_comma == <<"{", "\"", "a", "c", "t", "i", "o", "n", "\"", ":", "\"", "a", "\"", ",", "}">>
\* ???
t_noise == <<"?", "?", "?">>
\* go up then left
t_up_left == <<"g", "o", " ", "u", "p", " ", "t", "h", "e", "n", " ", "l", "e", "f", "t">>
\* b left
t_b_left == <<"b", " ", "l", "e", "f", "t">>
\* Turn LEFT
t_turn_left == <<"T", "u", "r", "n", " ", "L", "E", "F", "T">>
\* select left
t_select_left == <<"s", "e", "l", "e", "c", "t", " ", "l", "e", "f", "t">>
\* {"action":"up","panic_level":Infinity}
t_inf == <<"{", "\"", "a", "c", "t", "i", "o", "n", "\"", ":", "\"", "u", "p", "\"", ",", "\"", "p", "a", "n", "i", "c", "_", "l", "e", "v", "e", "l", "\"", ":", "I", "n", "f", "i", "n", "i", "t", "y", "}">>

LongTexts ==
  { t_json_b, t_prose_json, t_unclosed, t_reversed, t_trailing_comma, t_noise,
    t_up_left, t_b_left, t_turn_left, t_select_left, t_inf }
Texts == ShortTexts \cup LongTexts

InitParse ==
  /\ pc = "parse"
  /\ text \in Texts
  /\ parsed = EmptyDict
  /\ StateInit
  /\ script = <<>> /\ calls = 0
  /\ LoopIdle

ParseResponse ==
  /\ pc = "parse"
  /\ parsed' = parse_gemini_response(text)
  /\ pc' = "parsed"
  /\ UNCHANGED <<text, stateVars, scriptVars, loopVars>>

NextParse == ParseResponse
SpecParse == InitParse /\ [][NextParse]_vars

(***************************************************************************)
(* SpecUpdate: update_game_state called MaxUpdates times from the default  *)
(* state, the decisions of the calls repeating a script of one or two      *)
(* decisions from UpdateDecisions.                                         *)
(***************************************************************************)
MaxUpdates == 52
\* up
s_up == <<"u", "p">>
\* down
s_down == <<"d", "o", "w", "n">>
\* left
s_left == <<"l", "e", "f", "t">>
\* high
s_high == <<"h", "i", "g", "h">>
\* 8
s_8 == <<"8">>

Absent == [t |-> "absent", s |-> <<>>, n |-> 0]
\* the dict with the given fields, a field that is Absent being left out
Decision(action, panic_level) ==
  LET d1 == IF action = Absent THEN EmptyDict ELSE Put(EmptyDict, k_action, action)
  IN  IF panic_level = Absent THEN d1 ELSE Put(d1, k_panic_level, panic_level)
ActionChoices == {Absent, V_Str(s_up), V_Str(s_down)}
PanicChoices ==
  {Absent, V_Int(2), V_Int(5), V_Int(8), V_Str(s_8), V_Str(s_high), V_Null, V_Inf}
UpdateDecisions == {Decision(a, p) : a \in ActionChoices, p \in PanicChoices}
Scripts(S) == {<<a>> : a \in S} \cup {<<a, b>> : a \in S, b \in S}
\* the element of the cyclic script s that answers call number c (from 0)
ScriptAt(s, c) == s[(c % Len(s)) + 1]

InitUpdate ==
  /\ pc = "update"
  /\ ParseIdle
  /\ StateInit
  /\ script \in Scripts(UpdateDecisions)
  /\ calls = 0
  /\ LoopIdle

CallUpdate ==
  /\ pc = "update"
  /\ calls < MaxUpdates
  /\ LET d == ScriptAt(script, calls)
         r == update_game_state(game_state, d, now + 1)
     IN  /\ prev' = game_state
         /\ arg' = d
         /\ raised' = r.raised
         /\ game_state' = r.gs
         /\ appended' = IF r.raised THEN appended
                        ELSE Append(appended, HistoryEntry(d, now + 1))
  /\ now' = now + 1
  /\ calls' = calls + 1
  /\ UNCHANGED <<pc, script, parseVars, loopVars>>

NextUpdate == CallUpdate
SpecUpdate == InitUpdate /\ [][NextUpdate]_vars

(***************************************************************************)
(* Spec: main().  load_game_state, then run_game_loop(max_iterations) one  *)
(* step of an iteration at a time, then save_game_state.  A                *)
(* KeyboardInterrupt may arrive before any step of the loop.               *)
(***************************************************************************)
MaxIterations == 12     \* max_iterations (main passes 500)
EarlierUpdates == 9     \* updates made by the run that wrote game_state.json
StuckLimit == 10

\* {"action":"up"}
t_up == <<"{", "\"", "a", "c", "t", "i", "o", "n", "\"", ":", "\"", "u", "p", "\"", "}">>
\* {"action":"down","panic_level":8}
t_down_panic == <<"{", "\"", "a", "c", "t", "i", "o", "n", "\"", ":", "\"", "d", "o", "w", "n", "\"", ",", "\"", "p", "a", "n", "i", "c", "_", "l", "e", "v", "e", "l", "\"", ":", "8", "}">>
\* {"action":"Up"}
t_Up == <<"{", "\"", "a", "c", "t", "i", "o", "n", "\"", ":", "\"", "U", "p", "\"", "}">>
\* quota exceeded
s_quota == <<"q", "u", "o", "t", "a", " ", "e", "x", "c", "e", "e", "d", "e", "d">>

\* What one reasoner call yields: a response text, or an exception.
Reply(t) == [kind |-> "text", text |-> t]
ReplyError(m) == [kind |-> "error", text |-> m]
Replies ==
  { Reply(t_up), Reply(t_down_panic), Reply(t_turn_left), Reply(t_noise),
    Reply(t_Up), Reply(t_inf), ReplyError(s_quota) }

\* the game_state an earlier run left after n updates with decision d
RECURSIVE UpdatesFrom(_, _, _, _)
UpdatesFrom(gs, d, ts, n) ==
  IF n = 0 THEN gs
  ELSE UpdatesFrom(update_game_state(gs, d, ts).gs, d, ts + 1, n - 1)
EarlierRun ==
  UpdatesFrom(DefaultGameState, parse_gemini_response(t_up), 1, EarlierUpdates)

\* {"action":NaN}
t_nan == <<"{", "\"", "a", "c", "t", "i", "o", "n", "\"", ":", "N", "a", "N", "}">>
\* say "left"
t_say_left == <<"s", "a", "y", " ", "\"", "l", "e", "f", "t", "\"">>
\* {"action":"b","current_location":{"x":1}}
t_nested == <<"{", "\"", "a", "c", "t", "i", "o", "n", "\"", ":", "\"", "b", "\"", ",", "\"", "c", "u", "r", "r", "e", "n", "t", "_", "l", "o", "c", "a", "t", "i", "o", "n", "\"", ":", "{", "\"", "x", "\"", ":", "1", "}", "}">>

\* the snapshot files main may find: none, or the one an earlier run saved
SpecFiles == {NoFile, DumpFile(EarlierRun)}

(***************************************************************************)
(* SpecPersist: save_game_state at the end of one process, then a new      *)
(* process and its load_game_state.  The game_states are those that at     *)
(* most MaxPersistUpdates state updates of PersistDecisions reach from the *)
(* default or from a snapshot without keys; the files found at the start   *)
(* are those of PersistFiles.                                              *)
(***************************************************************************)
MaxPersistUpdates == 2
PersistDecisions ==
  { parse_gemini_response(t_up), parse_gemini_response(t_down_panic),
    parse_gemini_response(t_nan), parse_gemini_response(t_say_left),
    parse_gemini_response(t_nested), parse_gemini_response(t_inf) }
RECURSIVE StatesAfter(_, _)
StatesAfter(S, n) ==
  IF n = 0 THEN S
  ELSE S \cup StatesAfter({update_game_state(gs, d, MaxPersistUpdates - n + 1).gs :
                             gs \in S, d \in PersistDecisions}, n - 1)
PersistStates ==
  StatesAfter({DefaultGameState, GameStateOf(V_Obj(EmptyDict))}, MaxPersistUpdates)
\* none; {"current_location": "Rou; {}; {"stuck_counter": 3}; []
PersistFiles ==
  { NoFile,
    TextFile(<<"{", "\"", "c", "u", "r", "r", "e", "n", "t", "_", "l", "o", "c", "a", "t", "i", "o", "n", "\"", ":", " ", "\"", "R", "o", "u">>),
    TextFile(<<"{", "}">>),
    TextFile(<<"{", "\"", "s", "t", "u", "c", "k", "_", "c", "o", "u", "n", "t", "e", "r", "\"", ":", " ", "3", "}">>),
    TextFile(<<"[", "]">>) }

\* load_game_state's read of each file it can be asked to read
snapshot_read ==
  [f \in SpecFiles \cup PersistFiles \cup {DumpFile(gs) : gs \in PersistStates} |->
     json_load(f)]

Init ==
  /\ pc = "load"
  /\ ParseIdle
  /\ game_state = DefaultGameState
  /\ prev = DefaultGameState
  /\ arg = EmptyDict
  /\ raised = FALSE
  /\ appended = <<>>
  /\ now = EarlierUpdates
  /\ script \in Scripts(Replies)
  /\ calls = 0
  /\ i = 0
  /\ analysis = EmptyDict
  /\ iterSent = <<>>
  /\ iter = NewIter(0, DefaultGameState, 0)
  /\ run = NoRun
  /\ interrupted = FALSE
  /\ loaded = FALSE
  /\ file \in SpecFiles
  /\ saves = 0

\* load_game_state (lines 269-275): when open or json.load raises, the
\* assignment of line 272 is not made
Load ==
  /\ pc = "load"
  /\ game_state' = IF snapshot_read[file].ok THEN snapshot_read[file].gs
                   ELSE game_state
  /\ loaded' = snapshot_read[file].ok
  /\ pc' = "iter"
  /\ UNCHANGED <<parseVars, prev, arg, raised, appended, now, scriptVars,
                 i, analysis, iterSent, iter, run, interrupted, file, saves>>

\* line 231: the next iteration starts, or the range is exhausted
IterHead ==
  /\ pc = "iter"
  /\ IF i < MaxIterations
     THEN /\ i' = i + 1
          /\ iter' = NewIter(i + 1, game_state, calls)
          /\ iterSent' = <<>>
          /\ pc' = "capture"
     ELSE /\ pc' = "finished"
          /\ UNCHANGED <<i, iter, iterSent>>
  /\ UNCHANGED <<parseVars, stateVars, scriptVars, analysis, run, interrupted,
                 loaded, file, saves>>

\* (mutant) a failed capture is logged but the iteration goes on
CaptureFailureFallsThrough ==
  /\ pc = "capture"
  /\ \E ok \in BOOLEAN :
       /\ iter' = [iter EXCEPT !.captureFailed = ~ok]
       /\ pc' = "analyze"
  /\ UNCHANGED <<parseVars, stateVars, scriptVars, i, analysis, iterSent, run,
                 interrupted, loaded, file, saves>>

\* lines 234-236: take_screenshot returns the path, or None when adb fails
Capture ==
  /\ pc = "capture"
  /\ \E ok \in BOOLEAN :
       /\ iter' = [iter EXCEPT !.captureFailed = ~ok]
       /\ pc' = IF ok THEN "analyze" ELSE "skip_sleep"
  /\ UNCHANGED <<parseVars, stateVars, scriptVars, i, analysis, iterSent, run,
                 interrupted, loaded, file, saves>>

\* lines 237-238: sleep(delay); continue
SkipSleep ==
  /\ pc = "skip_sleep"
  /\ pc' = "iter"
  /\ UNCHANGED <<parseVars, stateVars, scriptVars, loopVars>>

\* lines 120-122: the dict analyze_screen_with_gemini returns on an exception
ErrorAnalysis(msg) ==
  (k_error :> V_Str(msg)) @@ (k_action :> V_Str(s_wait))
  @@ (k_reasoning :> V_Str(s_AnalysisFailed))

\* analyze_screen_with_gemini (lines 113-122) for each reply of the reasoner
analyze_screen_with_gemini ==
  [o \in Replies |-> IF o.kind = "error" THEN ErrorAnalysis(o.text)
                     ELSE parse_gemini_response(o.text)]

\* line 240
Analyze ==
  /\ pc = "analyze"
  /\ analysis' = analyze_screen_with_gemini[ScriptAt(script, calls)]
  /\ calls' = calls + 1
  /\ pc' = "update"
  /\ UNCHANGED <<parseVars, stateVars, script, i, iterSent, iter, run,
                 interrupted, loaded, file, saves>>

\* the run of equal decided actions, extended by one more decision
NextRun(r, decided) ==
  IF r.len > 0 /\ PyEq(decided, r.action)
  THEN [r EXCEPT !.len = @ + 1]
  ELSE [len |-> 1, action |-> decided]

\* lines 241-242: update_game_state, log_analysis; an exception leaves the
\* try block for the handler of line 256
Update ==
  /\ pc = "update"
  /\ LET r == update_game_state(game_state, analysis, now + 1)
     IN  /\ game_state' = r.gs
         /\ raised' = r.raised
         /\ appended' = IF r.raised THEN appended
                        ELSE Append(appended, HistoryEntry(analysis, now + 1))
         /\ iter' = IF r.raised THEN [iter EXCEPT !.errored = TRUE]
                    ELSE [iter EXCEPT !.updated = TRUE,
                                      !.postUpdate = r.gs.stuck_counter]
         /\ pc' = IF r.raised THEN "err_sleep" ELSE "stuck"
  /\ prev' = game_state
  /\ arg' = analysis
  /\ now' = now + 1
  /\ run' = NextRun(run, Get(analysis, k_action, V_Null))
  /\ UNCHANGED <<parseVars, scriptVars, i, analysis, iterSent, interrupted,
                 loaded, file, saves>>

\* (mutant) the table is searched for a key that occurs in the action, as
\* _fallback_parse searches a text
ResolveSubstring(action) ==
  IF action.t = "str" /\ FirstKeyIn(action.s) # 0
  THEN button_mappings[FirstKeyIn(action.s)].keycode
  ELSE ""

\* self.button_mappings.get(action): "" stands for None
Resolve(action) ==
  IF action.t = "str" /\ \E j \in 1..Len(button_mappings) : button_mappings[j].key = action.s
  THEN button_mappings[CHOOSE j \in 1..Len(button_mappings) :
                         button_mappings[j].key = action.s].keycode
  ELSE ""

\* (mutant) the keyevent is issued before the lookup result is tested
SendInputUnchecked(action, src) ==
  {<<[action |-> action,
      keycode |-> IF Resolve(action) = "" THEN "None" ELSE Resolve(action),
      src |-> src, ok |-> ok]>> : ok \in BOOLEAN}

\* send_input(action) (lines 98-111): the keyevent commands it may issue,
\* ok telling whether adb succeeded; none for an action that does not resolve
SendInput(action, src) ==
  IF Resolve(action) = "" THEN {<<>>}
  ELSE {<<[action |-> action, keycode |-> Resolve(action), src |-> src, ok |-> ok]>> :
          ok \in BOOLEAN}

\* line 223
CorrectiveActions ==
  {V_Str(s_up), V_Str(s_down), V_Str(s_left), V_Str(<<"r", "i", "g", "h", "t">>),
   V_Str(<<"b">>), V_Str(<<"s", "t", "a", "r", "t">>)}

\* lines 221-223: handle_stuck_state up to its send_input
Stuck ==
  /\ pc = "stuck"
  /\ IF game_state.stuck_counter > StuckLimit
     THEN \E c \in CorrectiveActions : \E sent \in SendInput(c, "corrective") :
            /\ iterSent' = iterSent \o sent
            /\ iter' = [iter EXCEPT !.stuckFired = TRUE]
            /\ pc' = "stuck_reset"
     ELSE /\ pc' = "act"
          /\ UNCHANGED <<iterSent, iter>>
  /\ UNCHANGED <<parseVars, stateVars, scriptVars, i, analysis, run, interrupted,
                 loaded, file, saves>>

\* (mutant) the loop ignores what handle_stuck_state returns
StuckResetThenAct ==
  /\ pc = "stuck_reset"
  /\ game_state' = [game_state EXCEPT !.stuck_counter = 0]
  /\ pc' = "act"
  /\ UNCHANGED <<parseVars, prev, arg, raised, appended, now, scriptVars, loopVars>>

\* (mutant) handle_stuck_state returns without resetting the counter
StuckResetForgotten ==
  /\ pc = "stuck_reset"
  /\ pc' = "iter"
  /\ UNCHANGED <<parseVars, stateVars, scriptVars, loopVars>>

\* lines 224-226 and 244-245: reset, sleep(1), return True; continue
StuckReset ==
  /\ pc = "stuck_reset"
  /\ game_state' = [game_state EXCEPT !.stuck_counter = 0]
  /\ pc' = "iter"
  /\ UNCHANGED <<parseVars, prev, arg, raised, appended, now, scriptVars, loopVars>>

\* (mutant) a send that failed is tried once more
ActRetriesFailedSend ==
  /\ pc = "act"
  /\ LET action == Get(analysis, k_action, V_Str(s_wait))
     IN  IF ~PyEq(action, V_Str(s_wait))
         THEN \E sent \in SendInput(action, "decided") :
                iterSent' = IF sent # <<>> /\ ~sent[1].ok
                            THEN iterSent \o sent \o sent
                            ELSE iterSent \o sent
         ELSE UNCHANGED iterSent
  /\ pc' = "cooldown"
  /\ UNCHANGED <<parseVars, stateVars, scriptVars, i, analysis, iter, run,
                 interrupted, loaded, file, saves>>

\* lines 247-249
Act ==
  /\ pc = "act"
  /\ LET action == Get(analysis, k_action, V_Str(s_wait))
     IN  IF ~PyEq(action, V_Str(s_wait))
         THEN \E sent \in SendInput(action, "decided") : iterSent' = iterSent \o sent
         ELSE UNCHANGED iterSent
  /\ pc' = "cooldown"
  /\ UNCHANGED <<parseVars, stateVars, scriptVars, i, analysis, iter, run,
                 interrupted, loaded, file, saves>>

\* line 251: sleep(delay)
Cooldown ==
  /\ pc = "cooldown"
  /\ pc' = "iter"
  /\ UNCHANGED <<parseVars, stateVars, scriptVars, loopVars>>

\* (mutant) the handler of line 256 ends the loop
ErrSleepBreaks ==
  /\ pc = "err_sleep"
  /\ pc' = "finished"
  /\ UNCHANGED <<parseVars, stateVars, scriptVars, loopVars>>

\* lines 256-258: log the error, sleep(delay), next iteration
ErrSleep ==
  /\ pc = "err_sleep"
  /\ pc' = "iter"
  /\ UNCHANGED <<parseVars, stateVars, scriptVars, loopVars>>

\* line 259, and the return to main
Finished ==
  /\ pc = "finished"
  /\ pc' = "save"
  /\ UNCHANGED <<parseVars, stateVars, scriptVars, loopVars>>

\* save_game_state (lines 261-267), called by main's finally; a failure to
\* write is logged and leaves the file as it was
Save ==
  /\ pc = "save"
  /\ \E ok \in BOOLEAN :
       file' = IF ok THEN DumpFile(game_state) ELSE file
  /\ saves' = saves + 1
  /\ pc' = "exit"
  /\ UNCHANGED <<parseVars, stateVars, scriptVars, i, analysis, iterSent, iter,
                 run, interrupted, loaded>>

\* KeyboardInterrupt.  Inside the try block of the loop body the handler of
\* line 253 breaks out of the loop; in the for statement, in the handler of
\* line 256 and at line 259 it leaves run_game_loop for main's handler.
InTry == {"capture", "skip_sleep", "analyze", "update", "stuck", "stuck_reset",
          "act", "cooldown"}
\* (mutant) main has no finally: an interrupt that leaves run_game_loop ends
\* the process
InterruptSkipsSave ==
  /\ pc \in InTry \cup {"iter", "err_sleep", "finished"}
  /\ interrupted' = TRUE
  /\ pc' = IF pc \in InTry THEN "finished" ELSE "exit"
  /\ UNCHANGED <<parseVars, stateVars, scriptVars, i, analysis, iterSent, iter,
                 run, loaded, file, saves>>
Interrupt ==
  /\ pc \in InTry \cup {"iter", "err_sleep", "finished"}
  /\ interrupted' = TRUE
  /\ pc' = IF pc \in InTry THEN "finished" ELSE "save"
  /\ UNCHANGED <<parseVars, stateVars, scriptVars, i, analysis, iterSent, iter,
                 run, loaded, file, saves>>

\* main() is started again: a new PokemonVLMBot, with __init__'s game_state
Restart ==
  /\ pc = "exit"
  /\ pc' = "load"
  /\ game_state' = DefaultGameState
  /\ prev' = game_state
  /\ loaded' = FALSE
  /\ UNCHANGED <<parseVars, arg, raised, appended, now, scriptVars, i, analysis,
                 iterSent, iter, run, interrupted, file, saves>>

ProgramStep ==
  \/ Load \/ IterHead \/ Capture \/ SkipSleep \/ Analyze \/ Update \/ Stuck
  \/ StuckReset \/ Act \/ Cooldown \/ ErrSleep \/ Finished \/ Save
Next == ProgramStep \/ Interrupt
Spec == Init /\ [][Next]_vars
\* the interpreter keeps executing the program until it exits
FairSpec == Spec /\ WF_vars(ProgramStep)

(***************************************************************************)
(* SpecSend: send_input(action) on the keys of button_mappings, on every   *)
(* string of at most MaxActionLen characters over a small alphabet and on  *)
(* some longer strings; text holds the action.                             *)
(***************************************************************************)
MaxActionLen == 2
\* the keys of the table; the short strings; wait, Up, go down, press a,
\* " up", "up ", ups, move_, Not provided
ActionStrings ==
  {button_mappings[j].key : j \in 1..Len(button_mappings)}
  \cup UNION {[1..n -> {"a", "b", "l", "r", "A", "_", " "}] : n \in 0..MaxActionLen}
  \cup { s_wait, <<"U", "p">>, <<"g", "o", " ", "d", "o", "w", "n">>,
         <<"p", "r", "e", "s", "s", " ", "a">>, <<" ", "u", "p">>, <<"u", "p", " ">>,
         <<"u", "p", "s">>, <<"m", "o", "v", "e", "_">>, s_NotProvided }
InitSend ==
  /\ pc = "send"
  /\ text \in ActionStrings
  /\ parsed = EmptyDict
  /\ StateInit
  /\ script = <<>>
  /\ calls = 0
  /\ LoopIdle
CallSendInput ==
  /\ pc = "send"
  /\ \E sent \in SendInput(V_Str(text), "decided") : iterSent' = sent
  /\ pc' = "sent"
  /\ UNCHANGED <<text, parsed, stateVars, scriptVars, i, analysis, iter, run,
                 interrupted, loaded, file, saves>>
SpecSend == InitSend /\ [][CallSendInput]_vars

InitPersist ==
  /\ ParseIdle
  /\ prev = DefaultGameState
  /\ arg = EmptyDict
  /\ raised = FALSE
  /\ appended = <<>>
  /\ now = 0
  /\ script = <<>>
  /\ calls = 0
  /\ i = 0
  /\ analysis = EmptyDict
  /\ iterSent = <<>>
  /\ iter = NewIter(0, DefaultGameState, 0)
  /\ run = NoRun
  /\ interrupted = FALSE
  /\ loaded = FALSE
  /\ saves = 0
  /\ file \in PersistFiles
  /\ \/ pc = "load" /\ game_state = DefaultGameState
     \/ pc = "save" /\ game_state \in PersistStates
SpecPersist == InitPersist /\ [][Save \/ Restart \/ Load]_vars

(***************************************************************************)
(* Claims about update_game_state (SpecUpdate).                            *)
(***************************************************************************)
Updated == pc = "update" /\ calls > 0 /\ ~raised
Min(a, b) == IF a < b THEN a ELSE b
NeverRaises(s) == \A j \in 1..Len(s) : PanicLevel(s[j]).err = ""

\* C1: a call whose decision's action equals the last_action the previous
\* update stored makes stuck_counter its old value plus 1; a call whose
\* action differs from that last_action makes it 0.
C1_StuckCounterRule ==
  Updated =>
    IF Get(arg, k_action, V_Null) = prev.last_action
    THEN game_state.stuck_counter = prev.stuck_counter + 1
    ELSE game_state.stuck_counter = 0

\* C4: after n update_game_state calls from a fresh state (n counting the
\* calls that returned), reasoning_history has length min(n, 50) and holds
\* the min(n, 50) most recently appended entries in append order; its length
\* never exceeds 50.
C4_HistoryIsLastFifty ==
  pc = "update" =>
    LET h == game_state.reasoning_history
        n == Len(appended)
        k == Min(n, HistoryCap)
    IN  /\ Len(h) = k
        /\ Len(h) <= HistoryCap
        /\ \A j \in 1..k : h[j] = appended[n - k + j]
        /\ NeverRaises(script) => n = calls
C4_Witness ==
  /\ pc = "update"
  /\ NeverRaises(script)
  /\ calls = HistoryCap + 2
  /\ Len(game_state.reasoning_history) = HistoryCap
  /\ game_state.reasoning_history[1].timestamp = 3
  /\ game_state.reasoning_history[HistoryCap].timestamp = calls

\* The panic level the claim speaks of: the decision's panic_level as an
\* integer, an absent or non-numeric one counting as 0.
C5_Level(d) ==
  IF k_panic_level \notin DOMAIN d THEN 0
  ELSE LET v == d[k_panic_level]
       IN  IF v.t = "int" THEN v.n
           ELSE IF v.t = "str" /\ AllDigits(v.s) THEN DigitsVal(v.s)
           ELSE 0

\* C5: after every update_game_state call (that returns), panic_mode is true
\* iff the decision's panic level, coerced as above, is at least 7, whatever
\* panic_mode was before the call.
C5_PanicModeFollowsLevel ==
  Updated => (game_state.panic_mode <=> C5_Level(arg) >= 7)
C5_Witness ==
  /\ Updated
  /\ prev.panic_mode
  /\ arg = Decision(V_Str(s_down), V_Str(s_high))
  /\ ~game_state.panic_mode

\* C6: a call whose panic_level is in the dead zone 4..6 leaves panic_mode
\* as it was before the call.
C6_DeadZoneKeepsPanicMode ==
  (Updated /\ C5_Level(arg) \in 4..6) => game_state.panic_mode = prev.panic_mode

(***************************************************************************)
(* Claims about _parse_gemini_response (SpecParse).                        *)
(***************************************************************************)
\* 1-based positions of the first "{" and the last "}", 0 when there is none
FirstOpen(t) == Find(t, "{") + 1
LastClose(t) == RFind(t, "}") + 1
\* the text has no "{", no "}", its last "}" before its first "{", or the
\* substring they enclose does not decode
NoValidStructure(t) ==
  \/ FirstOpen(t) = 0
  \/ LastClose(t) = 0
  \/ LastClose(t) < FirstOpen(t)
  \/ ~JsonLoads(SubSeq(t, FirstOpen(t), LastClose(t))).ok
Vocabulary == {button_mappings[j].key : j \in 1..Len(button_mappings)}

\* C7: _parse_gemini_response returns a decision (with action, reasoning,
\* scene_description) for every text; when the text has no valid structure
\* the result is the fallback parse of the full raw text, and the fallback's
\* action is a vocabulary entry or "wait".
C7_ParseAlwaysYieldsDecision ==
  pc = "parsed" =>
    LET fb == fallback_parse(text)
    IN  /\ {k_action, k_reasoning, k_scene_description} \subseteq DOMAIN parsed
        /\ NoValidStructure(text) => parsed = fb
        /\ fb[k_action].t = "str"
        /\ fb[k_action].s \in Vocabulary \cup {s_wait}
C7_Witness ==
  /\ pc = "parsed"
  /\ text = t_trailing_comma
  /\ NoValidStructure(text)
  /\ parsed[k_action] = V_Str(<<"a">>)
  /\ parsed[k_reasoning] = V_Str(text)

HasLeft(t) == Contains(Lower(t), s_left)
\* the keys button_mappings lists before "left"
BeforeLeft == {<<"a">>, <<"b">>, <<"s", "t", "a", "r", "t">>,
               <<"s", "e", "l", "e", "c", "t">>, s_up, s_down}
LeftWithConfidence3 ==
  /\ parsed[k_action] = V_Str(s_left)
  /\ parsed[k_confidence] = V_Int(3)

\* C8 (as claimed): every text that contains "left" (case-insensitively) and
\* has no valid structure parses to action "left" with confidence 3.
C8_LeftAlwaysWins ==
  (pc = "parsed" /\ HasLeft(text) /\ NoValidStructure(text)) => LeftWithConfidence3

\* C8 (amended): ... and that contains none of the keys listed before "left"
\* (a, b, start, select, up, down) parses to action "left" with confidence 3.
C8_LeftWinsWhenFirstInTable ==
  ( /\ pc = "parsed"
    /\ HasLeft(text)
    /\ NoValidStructure(text)
    /\ \A k \in BeforeLeft : ~Contains(Lower(text), k) )
  => LeftWithConfidence3
C8_Witness ==
  /\ pc = "parsed"
  /\ text = t_turn_left
  /\ NoValidStructure(text)
  /\ LeftWithConfidence3

(***************************************************************************)
(* Claims about run_game_loop (Spec, FairSpec).                            *)
(***************************************************************************)
\* the iteration that was started last has run to its end
IterationDone == pc = "iter" /\ i > 0
\* the commands of the current iteration that send the decided action
DecidedSends == {j \in 1..Len(iterSent) : iterSent[j].src = "decided"}
\* the key codes of up, down, left, right, b, start
CorrectiveCodes ==
  {"KEYCODE_DPAD_UP", "KEYCODE_DPAD_DOWN", "KEYCODE_DPAD_LEFT",
   "KEYCODE_DPAD_RIGHT", "KEYCODE_BUTTON_B", "KEYCODE_BUTTON_START"}

\* C2: in an iteration where stuck_counter is greater than 10 after the
\* state update, the decided action is never sent, and when the iteration
\* has run to its end exactly one button, a corrective one out of
\* {up, down, left, right, b, start}, has been sent and stuck_counter is 0.
C2_StuckIterationSendsOneCorrective ==
  (pc \notin {"load", "finished", "save", "exit"} /\ iter.updated /\ iter.postUpdate > 10) =>
    /\ DecidedSends = {}
    /\ pc \notin {"act", "cooldown"}
    /\ IterationDone =>
         /\ Len(iterSent) = 1
         /\ iterSent[1].src = "corrective"
         /\ iterSent[1].keycode \in CorrectiveCodes
         /\ game_state.stuck_counter = 0
C2_Witness ==
  /\ IterationDone
  /\ iter.updated
  /\ iter.postUpdate = 11
  /\ Len(iterSent) = 1
  /\ iterSent[1].keycode = "KEYCODE_BUTTON_START"
  /\ Get(analysis, k_action, V_Null) = V_Str(s_up)
  /\ game_state.stuck_counter = 0

\* C3: from a fresh state, a corrective action is issued in an iteration
\* only if the decided action has been the same in more than 10 consecutive
\* state-updating iterations ending at that iteration.
C3_CorrectiveOnlyAfterRepeats ==
  (pc \notin {"load", "exit"} /\ ~loaded /\ iter.stuckFired) => run.len > 10

\* C9: an iteration whose screen capture fails calls the reasoner not at
\* all, sends no button and leaves every GameState field as it was, and it
\* uses up one of the max_iterations iterations.
C9_FailedCaptureLeavesStateAlone ==
  (pc \in {"skip_sleep", "iter"} /\ i > 0 /\ iter.captureFailed) =>
    /\ calls = iter.calls0
    /\ iterSent = <<>>
    /\ game_state = iter.start
    /\ i = iter.index
    /\ i <= MaxIterations
C9_Witness ==
  /\ IterationDone
  /\ iter.captureFailed
  /\ i = 3
  /\ calls = 2
  /\ game_state.stuck_counter = 2
  /\ Len(game_state.reasoning_history) = 2

\* C10: without an interrupt run_game_loop runs exactly max_iterations
\* iterations and then ends: no failure inside an iteration ends the loop.
C10_LoopRunsAllIterations ==
  /\ [](pc \in {"finished", "save", "exit"} /\ ~interrupted => i = MaxIterations)
  /\ [][(pc \in {"skip_sleep", "stuck_reset", "cooldown", "err_sleep"} /\ ~interrupted')
          => pc' = "iter"]_vars
  /\ <>(interrupted \/ (pc = "exit" /\ i = MaxIterations))
C10_Witness ==
  /\ pc = "exit"
  /\ ~interrupted
  /\ i = MaxIterations
  /\ iter.errored
  /\ script = <<Reply(t_inf), ReplyError(s_quota)>>

(***************************************************************************)
(* Claims about main: the final save, the snapshot file, the buttons sent. *)
(***************************************************************************)
\* C11: once the loop has been started, the run ends, whether the iterations
\* are used up or an interrupt arrives anywhere in an iteration, in a sleep
\* or in the error handler, and save_game_state is called exactly once, on
\* the game_state of that moment, before the process exits.
C11_EveryEndingSavesOnce ==
  /\ [](saves = IF pc = "exit" THEN 1 ELSE 0)
  /\ [][pc = "save" =>
          /\ pc' = "exit"
          /\ game_state' = game_state
          /\ file' \in {file, DumpFile(game_state)}]_vars
  /\ <>(pc = "exit")
C11_Witness ==
  /\ pc = "exit"
  /\ interrupted
  /\ saves = 1
  /\ iter.errored
  /\ i < MaxIterations
  /\ file = DumpFile(game_state)

\* C13: when a process has saved its game_state and the next process loads
\* the file that save wrote, the loaded game_state equals the saved one in
\* every field; and save_game_state leaves the game_state in memory as it
\* was.
C13_SaveThenLoadRoundTrip ==
  /\ []((pc = "iter" /\ saves = 1 /\ file = DumpFile(prev)) =>
          (loaded /\ game_state = prev))
  /\ [][pc = "save" => game_state' = game_state]_vars
C13_Witness ==
  /\ pc = "iter"
  /\ saves = 1
  /\ file = DumpFile(prev)
  /\ loaded
  /\ game_state = prev
  /\ DOMAIN game_state = DOMAIN DefaultGameState
  /\ Len(game_state.reasoning_history) = 2
  /\ game_state.reasoning_history[1].action = V_NaN
  /\ game_state.reasoning_history[2].reasoning = V_Str(t_say_left)

\* C14: after load_game_state on a snapshot file that is missing, is not
\* JSON or is JSON without the shape of a game_state, the game_state is the
\* default one of __init__, with its eight fields.
C14_BadSnapshotLeavesDefault ==
  (pc = "iter" /\ file.kind # "dump") => game_state = DefaultGameState

\* the reply the reasoner gave to the latest call
LatestReply == ScriptAt(script, calls - 1)
\* the entry the latest update_game_state appended
LatestEntry == game_state.reasoning_history[Len(game_state.reasoning_history)]

\* C12: in an iteration whose reasoner call failed, the decision has action
\* "wait", reasoning "Analysis failed" and carries the error message, and
\* the reasoning_history entry appended for the iteration holds the error
\* message too.
C12_FailureReasonKeptInHistory ==
  (pc \in {"stuck", "act", "cooldown"} /\ iter.updated /\ LatestReply.kind = "error") =>
    /\ Get(analysis, k_action, V_Null) = V_Str(s_wait)
    /\ Get(analysis, k_reasoning, V_Null) = V_Str(s_AnalysisFailed)
    /\ Get(analysis, k_error, V_Null) = V_Str(LatestReply.text)
    /\ LatestEntry.action = V_Str(s_wait)
    /\ \E f \in DOMAIN LatestEntry :
         /\ f # "timestamp"
         /\ LatestEntry[f].t = "str"
         /\ Contains(LatestEntry[f].s, LatestReply.text)

\* the 10 button tokens with their codes, and the spellings with a verb
TenButtons ==
  (<<"a">> :> "KEYCODE_BUTTON_A") @@ (<<"b">> :> "KEYCODE_BUTTON_B")
  @@ (<<"s", "t", "a", "r", "t">> :> "KEYCODE_BUTTON_START")
  @@ (<<"s", "e", "l", "e", "c", "t">> :> "KEYCODE_BUTTON_SELECT")
  @@ (<<"u", "p">> :> "KEYCODE_DPAD_UP")
  @@ (<<"d", "o", "w", "n">> :> "KEYCODE_DPAD_DOWN")
  @@ (<<"l", "e", "f", "t">> :> "KEYCODE_DPAD_LEFT")
  @@ (<<"r", "i", "g", "h", "t">> :> "KEYCODE_DPAD_RIGHT")
  @@ (<<"l">> :> "KEYCODE_BUTTON_L1") @@ (<<"r">> :> "KEYCODE_BUTTON_R1")
TenTokens == DOMAIN TenButtons
TenCodes == {TenButtons[tok] : tok \in TenTokens}
Directions == {<<"u", "p">>, <<"d", "o", "w", "n">>, <<"l", "e", "f", "t">>,
               <<"r", "i", "g", "h", "t">>}
PressButtons == {<<"a">>, <<"b">>, <<"s", "t", "a", "r", "t">>,
                 <<"s", "e", "l", "e", "c", "t">>}
\* the target of s when s is a verb followed by a target; <<>> otherwise
StripVerb(s, verbs, targets) ==
  IF \E v \in verbs, tg \in targets : s = v \o tg
  THEN CHOOSE tg \in targets : \E v \in verbs : s = v \o tg
  ELSE <<>>
\* move_up, go_up, press_a, ...
AliasTarget(s) ==
  IF StripVerb(s, {<<"m", "o", "v", "e", "_">>, <<"g", "o", "_">>}, Directions) # <<>>
  THEN StripVerb(s, {<<"m", "o", "v", "e", "_">>, <<"g", "o", "_">>}, Directions)
  ELSE StripVerb(s, {<<"p", "r", "e", "s", "s", "_">>}, PressButtons)
\* walk down, go down, move down, press a, ...
PhraseTarget(s) ==
  IF StripVerb(s, {<<"w", "a", "l", "k", " ">>, <<"m", "o", "v", "e", " ">>,
                   <<"g", "o", " ">>}, Directions) # <<>>
  THEN StripVerb(s, {<<"w", "a", "l", "k", " ">>, <<"m", "o", "v", "e", " ">>,
                     <<"g", "o", " ">>}, Directions)
  ELSE StripVerb(s, {<<"p", "r", "e", "s", "s", " ">>}, PressButtons)
RECURSIVE Trim(_)
Trim(s) ==
  IF s = <<>> THEN s
  ELSE IF Head(s) = " " THEN Trim(Tail(s))
  ELSE IF s[Len(s)] = " " THEN Trim(SubSeq(s, 1, Len(s) - 1))
  ELSE s
\* the normalization of an action: lowercase, trim, phrase to token
Normalized(s) ==
  IF PhraseTarget(Trim(Lower(s))) # <<>> THEN PhraseTarget(Trim(Lower(s)))
  ELSE Trim(Lower(s))
\* the action the iteration decided on
DecidedAction == Get(analysis, k_action, V_Str(s_wait))
InTable(a) == a.t = "str" /\ \E j \in 1..Len(button_mappings) : button_mappings[j].key = a.s

\* C15: a decided action "wait" sends no button; a decided action that is
\* no key of the action table sends no button and the iteration goes on to
\* its cooldown and the next iteration; every button code sent, for a
\* decided or a corrective action, is one of the 10 button codes.
C15_WaitAndUnknownSendNothing ==
  /\ [](\A j \in 1..Len(iterSent) : iterSent[j].keycode \in TenCodes)
  /\ []((pc = "cooldown" /\ (DecidedAction = V_Str(s_wait) \/ ~InTable(DecidedAction)))
          => iterSent = <<>>)
  /\ [][(pc = "act" /\ ~interrupted') => pc' = "cooldown"]_vars
  /\ [][(pc = "cooldown" /\ ~interrupted') => pc' = "iter"]_vars
C15_Witness ==
  /\ IterationDone
  /\ ~interrupted
  /\ iter.updated
  /\ ~iter.stuckFired
  /\ DecidedAction = V_Str(<<"U", "p">>)
  /\ iterSent = <<>>
  /\ i < MaxIterations

\* C16: a decided action that, lowercased, trimmed and with its phrase
\* rewritten, is one of the 10 tokens has that token's button sent in the
\* ACTING step.
C16_NormalizedActionIsSent ==
  (pc = "cooldown" /\ DecidedAction.t = "str"
     /\ Normalized(DecidedAction.s) \in TenTokens) =>
    /\ Len(iterSent) = 1
    /\ iterSent[1].keycode = TenButtons[Normalized(DecidedAction.s)]

\* C17 as stated: send_input sends the token's code for each of the 10
\* tokens and nothing for every other string.
C17_OnlyTenTokensResolve ==
  pc = "sent" =>
    IF text \in TenTokens
    THEN Len(iterSent) = 1 /\ iterSent[1].keycode = TenButtons[text]
    ELSE iterSent = <<>>
\* C17 amended: send_input sends the token's code for each of the 10 tokens
\* and for each of the 12 spellings move_<direction>, go_<direction> and
\* press_<a|b|start|select>, and nothing for every other string.
C17_TokensAndAliasesResolve ==
  pc = "sent" =>
    IF text \in TenTokens
    THEN Len(iterSent) = 1 /\ iterSent[1].keycode = TenButtons[text]
    ELSE IF AliasTarget(text) # <<>>
    THEN Len(iterSent) = 1 /\ iterSent[1].keycode = TenButtons[AliasTarget(text)]
    ELSE iterSent = <<>>
C17_Witness ==
  /\ pc = "sent"
  /\ text = <<"p", "r", "e", "s", "s", "_", "s", "t", "a", "r", "t">>
  /\ Len(iterSent) = 1
  /\ iterSent[1].keycode = "KEYCODE_BUTTON_START"

\* C18: in every iteration at most one keyevent command is issued, the
\* corrective one of stuck recovery or the decided one.
C18_AtMostOnePress ==
  /\ Len(iterSent) <= 1
  /\ iterSent # <<>> =>
       iterSent[1].src = IF iter.stuckFired THEN "corrective" ELSE "decided"
C18_Witness ==
  /\ IterationDone
  /\ iter.updated
  /\ iter.postUpdate = StuckLimit
  /\ Len(iterSent) = 1
  /\ iterSent[1].src = "decided"
  /\ ~iterSent[1].ok

\* C19 as stated: in a run from the default game_state, stuck_counter is at
\* most 10 when an iteration starts, at most 11 inside an iteration, and at
\* most 10 in the snapshot saved at exit.
FreshRun == pc # "load" /\ ~loaded
C19_StuckCounterAtMostTenAtExit ==
  FreshRun =>
    /\ game_state.stuck_counter <= StuckLimit + 1
    /\ pc = "iter" => game_state.stuck_counter <= StuckLimit
    /\ (pc = "exit" /\ file.kind = "dump") => file.state.stuck_counter <= StuckLimit
\* C19 amended: ... and at most 10 in the snapshot saved at exit, unless a
\* KeyboardInterrupt ended the iteration after the state update that made
\* it 11 and before the reset of stuck recovery: then 11 is saved.
C19_StuckCounterBounded ==
  FreshRun =>
    /\ game_state.stuck_counter <= StuckLimit + 1
    /\ pc = "iter" => game_state.stuck_counter <= StuckLimit
    /\ (pc = "exit" /\ file.kind = "dump" /\ file.state.stuck_counter > StuckLimit) =>
         /\ interrupted
         /\ iter.updated
         /\ iter.postUpdate = StuckLimit + 1
         /\ file.state.stuck_counter = StuckLimit + 1
C19_Witness ==
  /\ FreshRun
  /\ pc = "exit"
  /\ interrupted
  /\ iter.stuckFired
  /\ file = DumpFile(game_state)
  /\ file.state.stuck_counter = StuckLimit + 1
====
